---- MODULE Spec2Model ----
(***************************************************************************)
(* Audit-trail / history recording of skillMetrics: the route handlers of  *)
(* server/routes.ts over the DatabaseStorage of server/storage.ts.         *)
(*                                                                         *)
(* In Spec a handler runs as one action (requests are taken one at a       *)
(* time).  SpecRegister takes POST /api/register of server/auth.ts step by *)
(* step, with several requests in flight, and SpecProfileSteps takes the   *)
(* profile update step by step.  The four tables are functions from the    *)
(* serial id to the row.  A Skill row's own updatedAt is not kept: no      *)
(* property below reads it.                                                *)
(***************************************************************************)
EXTENDS Integers, Sequences, FiniteSets, TLC

VARIABLES users, skills, skillHistory, profileHistory, clock, nreq, pre, last,
          registrations, profileCall, skillCalls

vars == <<users, skills, skillHistory, profileHistory, clock, nreq, pre, last,
          registrations, profileCall, skillCalls>>

(***************************************************************************)
(* Values.  JavaScript's null and undefined are two values of their own,   *)
(* distinct from every string.                                             *)
(***************************************************************************)
Null == "<null>"
Undefined == "<undefined>"

\* JavaScript truthiness of a string-or-null-or-undefined value.
Truthy(v) == v \notin {Undefined, Null, ""}

\* A column without a value in the inserted object is stored as NULL.
Column(v) == IF v = Undefined THEN Null ELSE v

(***************************************************************************)
(* Bounds of the model.                                                    *)
(***************************************************************************)
\* Number of mutating requests (profile update, skill create, skill update)
\* taken in one run.
MaxRequests == 1
\* Number of fields a profile-update body supplies.
MaxSupplied == 2
\* Number of registration requests in flight together.
MaxRegistrations == 3

AdminId == 1
DemoId == 2
\* Authenticated requesters: the two seeded accounts.
Requesters == {AdminId, DemoId}

CertUrl == "https://credentials.example.com/typescript/123"

\* Request inputs.
\* Undefined: the payload has no name.
SkillNameInputs == {"JavaScript", "Go", Undefined}
SkillLevelInputs == {"Beginner", "Expert", ""}
CertInputs == {Undefined, Null, CertUrl}
ProfileValue == "admin"
\* Between two readings of the time within a request the clock either does
\* not advance (0: the readings tie) or advances (1).
Ticks == {0, 1}

(***************************************************************************)
(* The store: a record of the four tables and the clock, threaded through  *)
(* the storage calls of a handler.                                         *)
(***************************************************************************)
\* threw: a storage call has thrown; the calls after it are not made.
\* failAt: the writing statement (INSERT or UPDATE) of the request that
\* throws, counted from the start of the handler; 0: none does.
\* readFailAt: the lookup by id of the request whose query throws (1: the
\* handler's, 2: the one in updateSkill or updateUser); 0: none does.
Store == [users |-> users, skills |-> skills, skillHistory |-> skillHistory,
          profileHistory |-> profileHistory, clock |-> clock, threw |-> FALSE,
          failAt |-> 0, readFailAt |-> 0]

\* A writing statement of a storage method: it is not reached after a
\* throw, it throws when it is the failing one (the method rethrows), and
\* otherwise leaves the store written.
Write(s, written) ==
  IF s.threw THEN s
  ELSE IF s.failAt = 1 THEN [s EXCEPT !.threw = TRUE, !.failAt = 0]
  ELSE [written EXCEPT !.failAt = IF @ > 1 THEN @ - 1 ELSE 0]

\* serial primary key: rows are never deleted, so the next id is the count + 1.
NextId(table) == Cardinality(DOMAIN table) + 1

Insert(table, row) == table @@ (NextId(table) :> row)

\* A reading of the time (new Date() or the column default now()).
Tick(s, tick) == [s EXCEPT !.clock = @ + tick]

\* What a lookup by id yields when no row has the id (undefined).
Missing == [missing |-> TRUE]

(***************************************************************************)
(* DatabaseStorage: skills and skill_history.                              *)
(***************************************************************************)
\* readFails: the query throws; getSkillById catches the error and returns
\* undefined.
getSkillById(s, id, readFails) ==
  IF ~readFails /\ id \in DOMAIN s.skills THEN s.skills[id] ELSE Missing

\* Variant: the rows the skill already has are rewritten to the new snapshot
\* before the new row is added.
createSkillHistoryRewriting(s, insertHistory, tick) ==
  LET row == [id |-> NextId(s.skillHistory),
              skillId |-> insertHistory.skillId,
              userId |-> insertHistory.userId,
              name |-> insertHistory.name,
              level |-> insertHistory.level,
              certificationUrl |-> Column(insertHistory.certificationUrl),
              updatedAt |-> s.clock]
      rewritten == [i \in DOMAIN s.skillHistory |->
                      IF s.skillHistory[i].skillId = insertHistory.skillId
                      THEN [row EXCEPT !.id = i] ELSE s.skillHistory[i]]
  IN [s EXCEPT !.skillHistory = Insert(rewritten, row)]

\* insertHistory.updatedAt is <<t>> when the caller passes a date and <<>>
\* when it does not: the column default now() then stamps the row.
createSkillHistory(s, insertHistory, tick) ==
  LET s1 == IF insertHistory.updatedAt = <<>> THEN Tick(s, tick) ELSE s
      row == [id |-> NextId(s.skillHistory),
              skillId |-> insertHistory.skillId,
              userId |-> insertHistory.userId,
              name |-> insertHistory.name,
              level |-> insertHistory.level,
              certificationUrl |-> Column(insertHistory.certificationUrl),
              updatedAt |-> IF insertHistory.updatedAt = <<>>
                            THEN s1.clock ELSE insertHistory.updatedAt[1]]
  IN Write(s1, [s1 EXCEPT !.skillHistory = Insert(@, row)])

createSkill(s, insertSkill, tick) ==
  LET s1 == Tick(s, tick)
      now == s1.clock
      skill == [id |-> NextId(s.skills),
                userId |-> insertSkill.userId,
                name |-> insertSkill.name,
                level |-> insertSkill.level,
                certificationUrl |-> Column(insertSkill.certificationUrl)]
      s2 == Write(s1, [s1 EXCEPT !.skills = Insert(@, skill)])
  IN createSkillHistory(s2, [skillId |-> skill.id, userId |-> skill.userId,
                             name |-> skill.name, level |-> skill.level,
                             certificationUrl |-> skill.certificationUrl,
                             updatedAt |-> <<now>>], tick)

\* The storage-level change detection of updateSkill.
SkillChangedStorage(updates, currentSkill) ==
  \/ updates.level # Undefined /\ updates.level # currentSkill.level
  \/ /\ updates.certificationUrl # Undefined
     /\ updates.certificationUrl # currentSkill.certificationUrl

\* Variant: the row records the level the skill had before the update.
HistoryLevelStale(updates, currentSkill) == currentSkill.level

\* updates.level || currentSkill.level
HistoryLevel(updates, currentSkill) ==
  IF Truthy(updates.level) THEN updates.level ELSE currentSkill.level

\* updates.certificationUrl !== undefined ? updates.certificationUrl : current
HistoryCertificationUrl(updates, currentSkill) ==
  IF updates.certificationUrl # Undefined THEN updates.certificationUrl
  ELSE currentSkill.certificationUrl

\* One key of .set({...updates}): a key whose value is undefined is not part
\* of the SET clause and the column keeps its value.
SetColumn(old, new) == IF new = Undefined THEN old ELSE new

SetSkill(currentSkill, updates) ==
  [currentSkill EXCEPT
     !.userId = updates.userId,
     !.name = SetColumn(@, updates.name),
     !.level = SetColumn(@, updates.level),
     !.certificationUrl = SetColumn(@, updates.certificationUrl)]

\* The time is read (now = new Date()) only where a row is stamped with it.
updateSkill(s, id, updates, tick) ==
  LET currentSkill == getSkillById(s, id, s.readFailAt = 2)
      s1 == Tick(s, tick)
      now == s1.clock
      s2 == IF SkillChangedStorage(updates, currentSkill)
            THEN createSkillHistory(s1,
                   [skillId |-> id, userId |-> currentSkill.userId,
                    name |-> currentSkill.name,
                    level |-> HistoryLevel(updates, currentSkill),
                    certificationUrl |-> HistoryCertificationUrl(updates, currentSkill),
                    updatedAt |-> <<now>>], tick)
            ELSE s
  IN IF currentSkill = Missing THEN [s EXCEPT !.threw = TRUE]
     ELSE Write(s2, [s2 EXCEPT !.skills[id] = SetSkill(currentSkill, updates)])

\* ORDER BY updated_at DESC.  The order of rows whose updatedAt tie is the
\* database's choice; the model takes two of them: ties by ascending id
\* (byId = 1) and ties by descending id (byId = -1).
\* Variant: ORDER BY updated_at ASC.
ListedBeforeAscending(x, y, byId) ==
  \/ x.updatedAt < y.updatedAt
  \/ x.updatedAt = y.updatedAt /\ byId * x.id <= byId * y.id

ListedBefore(x, y, byId) ==
  \/ x.updatedAt > y.updatedAt
  \/ x.updatedAt = y.updatedAt /\ byId * x.id <= byId * y.id

RECURSIVE OrderBy(_, _)
OrderBy(rows, byId) ==
  IF rows = {} THEN <<>>
  ELSE LET first == CHOOSE x \in rows : \A y \in rows : ListedBefore(x, y, byId)
       IN <<first>> \o OrderBy(rows \ {first}, byId)

Listings(rows) == {OrderBy(rows, 1), OrderBy(rows, -1)}

Rows(table) == {table[i] : i \in DOMAIN table}

\* readFails: the query throws; the error is caught and [] returned.
getSkillHistoryBySkillId(s, skillId, readFails) ==
  IF readFails THEN {<<>>}
  ELSE Listings({h \in Rows(s.skillHistory) : h.skillId = skillId})

\* SELECT * FROM skills, without an ORDER BY: the rows as a set.
getSkills(s, readFails) == IF readFails THEN {} ELSE Rows(s.skills)

(***************************************************************************)
(* routes.ts: the skill handlers.  A handler yields the store it leaves    *)
(* and the status of its response.                                         *)
(***************************************************************************)
Response(s, status) == [store |-> s, status |-> status]

\* The levels the client offers; insertSkillSchema does not refer to them.
SKILL_LEVELS == {"Beginner", "Intermediate", "Expert"}

\* insertSkillSchema.parse: userId, name and level are required, and
\* certificationUrl is optional and nullable.
ValidSkill(body) ==
  body.name \notin {Undefined, Null} /\ body.level \notin {Undefined, Null}

\* Variant: the handlers do not compare the payload's userId.
NotSelfUnchecked(skillData, requester) == FALSE

\* skillData.userId !== req.user.id
NotSelf(skillData, requester) == skillData.userId # requester

\* Variant: the owner of the stored skill is not compared.
NotOwnerUnchecked(existingSkill, requester) == FALSE

\* existingSkill.userId !== req.user.id
NotOwner(existingSkill, requester) == existingSkill.userId # requester

\* Variant: a change of name counts as a change too.
SkillChangedRouteOrName(existingSkill, skillData) ==
  \/ existingSkill.level # skillData.level
  \/ existingSkill.certificationUrl # skillData.certificationUrl
  \/ existingSkill.name # skillData.name

\* The route-level change detection of PUT /api/skills/:id.
SkillChangedRoute(existingSkill, skillData) ==
  \/ existingSkill.level # skillData.level
  \/ existingSkill.certificationUrl # skillData.certificationUrl

\* The history entry both skill handlers build from the payload.
RouteSkillHistory(skillId, skillData) ==
  [skillId |-> skillId, userId |-> skillData.userId, name |-> skillData.name,
   level |-> skillData.level, certificationUrl |-> skillData.certificationUrl,
   updatedAt |-> <<>>]

PostSkill(s, requester, body, tick) ==
  IF ~ValidSkill(body) THEN Response(s, 400)
  ELSE IF NotSelf(body, requester) THEN Response(s, 403)
  ELSE LET s1 == createSkill(s, body, tick)
           skillId == NextId(s.skills)
           s2 == createSkillHistory(s1, RouteSkillHistory(skillId, body), tick)
       IN IF s2.threw THEN Response(s2, 500) ELSE Response(s2, 201)

\* Variant: the payload is validated after the history entry is written.
PutSkillValidatingLate(s, requester, skillId, body, tick) ==
  LET existingSkill == getSkillById(s, skillId, s.readFailAt = 1)
      s1 == IF SkillChangedRoute(existingSkill, body)
            THEN createSkillHistory(s, RouteSkillHistory(skillId, body), tick)
            ELSE s
      s2 == updateSkill(s1, skillId, body, tick)
  IN IF NotSelf(body, requester) THEN Response(s, 403)
     ELSE IF existingSkill = Missing THEN Response(s, 404)
     ELSE IF NotOwner(existingSkill, requester) THEN Response(s, 403)
     ELSE IF ~ValidSkill(body) THEN Response(s1, 400)
     ELSE IF s2.threw THEN Response(s2, 500)
     ELSE Response(s2, 200)

\* Variant: a skill that is not found is reported after the history entry of
\* the payload is written.
PutSkillMissingLate(s, requester, skillId, body, tick) ==
  LET existingSkill == getSkillById(s, skillId, s.readFailAt = 1)
      s1 == IF existingSkill = Missing \/ SkillChangedRoute(existingSkill, body)
            THEN createSkillHistory(s, RouteSkillHistory(skillId, body), tick)
            ELSE s
      s2 == updateSkill(s1, skillId, body, tick)
  IN IF ~ValidSkill(body) THEN Response(s, 400)
     ELSE IF NotSelf(body, requester) THEN Response(s, 403)
     ELSE IF existingSkill = Missing THEN Response(s1, 404)
     ELSE IF NotOwner(existingSkill, requester) THEN Response(s, 403)
     ELSE IF s2.threw THEN Response(s2, 500)
     ELSE Response(s2, 200)

PutSkill(s, requester, skillId, body, tick) ==
  IF ~ValidSkill(body) THEN Response(s, 400)
  ELSE IF NotSelf(body, requester) THEN Response(s, 403)
  ELSE LET existingSkill == getSkillById(s, skillId, s.readFailAt = 1)
           s1 == IF SkillChangedRoute(existingSkill, body)
                 THEN createSkillHistory(s, RouteSkillHistory(skillId, body), tick)
                 ELSE s
           s2 == updateSkill(s1, skillId, body, tick)
       IN IF existingSkill = Missing THEN Response(s, 404)
          ELSE IF NotOwner(existingSkill, requester) THEN Response(s, 403)
          ELSE IF s2.threw THEN Response(s2, 500)
          ELSE Response(s2, 200)

\* What a handler answers that responds with a message and no rows.
Refused(status) == [status |-> status]

\* GET /api/skills/:id/history: the listings the handler can answer with.
GetSkillHistory(s, requester, skillId, skillReadFails, historyReadFails) ==
  LET skill == getSkillById(s, skillId, skillReadFails)
  IN IF skill = Missing THEN Refused(404)
     ELSE IF NotOwner(skill, requester) THEN Refused(403)
     ELSE [status |-> 200,
           listings |-> getSkillHistoryBySkillId(s, skillId, historyReadFails)]

(***************************************************************************)
(* DatabaseStorage: users and profile_history.                             *)
(***************************************************************************)
\* readFails: the query throws; getUser catches the error and returns
\* undefined.
getUser(s, id, readFails) ==
  IF ~readFails /\ id \in DOMAIN s.users THEN s.users[id] ELSE Missing

createProfileHistory(s, insertHistory, tick) ==
  LET s1 == IF insertHistory.updatedAt = <<>> THEN Tick(s, tick) ELSE s
      row == [id |-> NextId(s.profileHistory),
              userId |-> insertHistory.userId,
              field |-> insertHistory.field,
              previousValue |-> Column(insertHistory.previousValue),
              newValue |-> insertHistory.newValue,
              updatedAt |-> IF insertHistory.updatedAt = <<>>
                            THEN s1.clock ELSE insertHistory.updatedAt[1]]
  IN Write(s1, [s1 EXCEPT !.profileHistory = Insert(@, row)])

fieldsToTrack == <<"role", "projectName", "clientName", "location">>

\* updates is a partial User: a function on the keys it holds.
TrackedChange(updates, currentUser, field) ==
  /\ field \in DOMAIN updates
  /\ updates[field] # Undefined
  /\ updates[field] # currentUser[field]

\* The loop of updateUser over the fields left to look at.
RECURSIVE TrackChanges(_, _, _, _, _, _)
TrackChanges(s, id, updates, currentUser, fields, tick) ==
  IF fields = <<>> THEN s
  ELSE LET field == Head(fields)
           s1 == Tick(s, tick)
           s2 == IF TrackedChange(updates, currentUser, field)
                 THEN createProfileHistory(s1,
                        [userId |-> id, field |-> field,
                         previousValue |-> currentUser[field],
                         newValue |-> updates[field],
                         updatedAt |-> <<s1.clock>>], tick)
                 ELSE s
       IN TrackChanges(s2, id, updates, currentUser, Tail(fields), tick)

\* .set({...updates}): every key updates holds is part of the SET clause.
SetUser(currentUser, updates) ==
  [f \in DOMAIN currentUser |->
     IF f \notin DOMAIN updates THEN currentUser[f]
     ELSE IF f = "id" THEN updates.id
     ELSE SetColumn(currentUser[f], updates[f])]

updateUser(s, id, updates, tick) ==
  LET currentUser == getUser(s, id, s.readFailAt = 2)
      s1 == TrackChanges(s, id, updates, currentUser, fieldsToTrack, tick)
  IN IF currentUser = Missing THEN [s EXCEPT !.threw = TRUE]
     ELSE Write(s1, [s1 EXCEPT !.users[id] = SetUser(currentUser, updates)])

\* readFails: the query throws; getUserByEmail catches the error and returns
\* undefined.
getUserByEmail(s, email, readFails) ==
  LET found == {id \in DOMAIN s.users : s.users[id].email = email}
  IN IF ~readFails /\ found # {} THEN s.users[CHOOSE id \in found : TRUE]
     ELSE Missing

\* Variant: the insert does not check the email (as a table without the
\* unique constraint).
createUserUnconstrained(s, insertUser) ==
  [s EXCEPT !.users = Insert(@, [id |-> NextId(s.users)] @@ insertUser)]

\* INSERT INTO users: the unique constraint on email makes the insert throw
\* when a row has the email.
createUser(s, insertUser) ==
  IF \E id \in DOMAIN s.users : s.users[id].email = insertUser.email
  THEN [s EXCEPT !.threw = TRUE]
  ELSE Write(s, [s EXCEPT !.users = Insert(@, [id |-> NextId(s.users)] @@ insertUser)])

getProfileHistoryByUserId(s, userId, readFails) ==
  IF readFails THEN {<<>>}
  ELSE Listings({h \in Rows(s.profileHistory) : h.userId = userId})

getUsers(s, readFails) == IF readFails THEN {} ELSE Rows(s.users)

(***************************************************************************)
(* routes.ts: PUT /api/users/:id/profile and GET /api/profile-history.     *)
(***************************************************************************)
updatableFields ==
  <<"firstName", "lastName", "projectName", "clientName", "role", "location">>

Range(seq) == {seq[i] : i \in DOMAIN seq}

\* field.replace(/([A-Z])/g, ' $1').replace(/^./, str => str.toUpperCase())
\* on the six updatable field names.
FieldLabel(field) ==
  CASE field = "firstName" -> "First Name"
    [] field = "lastName" -> "Last Name"
    [] field = "projectName" -> "Project Name"
    [] field = "clientName" -> "Client Name"
    [] field = "role" -> "Role"
    [] field = "location" -> "Location"

\* Variant: the handler forwards every key of the body that is not one of
\* the six fields, next to the changed ones.
profileUpdatesForwardingAll(body, currentUser) ==
  [f \in {g \in DOMAIN body : \/ g \notin Range(updatableFields)
                              \/ /\ Truthy(body[g])
                                 /\ body[g] # currentUser[g]}
     |-> body[f]]

\* Variant: a supplied value counts as a change when it is not undefined.
FieldChangedRouteDefined(body, currentUser, field) ==
  body[field] # Undefined /\ body[field] # currentUser[field]

\* Variant: the handler does not compare the requester with the target.
NotOwnProfileUnchecked(requester, userId) == FALSE

\* req.user.id !== userId
NotOwnProfile(requester, userId) == requester # userId

\* req.body[field] && req.body[field] !== currentUser[field]
FieldChangedRoute(body, currentUser, field) ==
  Truthy(body[field]) /\ body[field] # currentUser[field]

profileUpdates(body, currentUser) ==
  [f \in {g \in Range(updatableFields) : FieldChangedRoute(body, currentUser, g)}
     |-> body[f]]

\* currentUser[field] || ""
PreviousValueRoute(currentUser, field) ==
  IF Truthy(currentUser[field]) THEN currentUser[field] ELSE ""

\* The loop over historyEntries: the entries of the fields left, in order.
RECURSIVE WriteHistoryEntries(_, _, _, _, _, _)
WriteHistoryEntries(s, userId, body, currentUser, fields, tick) ==
  IF fields = <<>> THEN s
  ELSE LET field == Head(fields)
           s1 == IF FieldChangedRoute(body, currentUser, field)
                 THEN createProfileHistory(s,
                        [userId |-> userId, field |-> FieldLabel(field),
                         previousValue |-> PreviousValueRoute(currentUser, field),
                         newValue |-> body[field],
                         updatedAt |-> <<>>], tick)
                 ELSE s
       IN WriteHistoryEntries(s1, userId, body, currentUser, Tail(fields), tick)

PutProfile(s, requester, userId, body, readFails, tick) ==
  IF NotOwnProfile(requester, userId) THEN Response(s, 403)
  ELSE LET currentUser == getUser(s, userId, readFails \/ s.readFailAt = 1)
           updates == profileUpdates(body, currentUser)
           s1 == updateUser(s, userId, updates, tick)
           s2 == WriteHistoryEntries(s1, userId, body, currentUser,
                                     updatableFields, tick)
       IN IF currentUser = Missing THEN Response(s, 404)
          ELSE IF DOMAIN updates = {} THEN Response(s, 200)
          ELSE IF s1.threw THEN Response(s1, 500)
          ELSE IF s2.threw THEN Response(s2, 500)
          ELSE Response(s2, 200)

GetProfileHistory(s, requester, readFails) ==
  [status |-> 200,
   listings |-> getProfileHistoryByUserId(s, requester, readFails)]

(***************************************************************************)
(* routes.ts: the admin listings.  A request comes from a session of one   *)
(* of the users or from no session (Anonymous).                            *)
(***************************************************************************)
Anonymous == 0

AdminEmail == "admin@example.com"

\* Variant: every authenticated requester passes.
ensureAdminAuthenticatedOnly(s, requester) == requester \in DOMAIN s.users

\* Variant: the check reads the role of the requester.
ensureAdminByRole(s, requester) ==
  requester \in DOMAIN s.users /\ s.users[requester].role = "admin"

\* req.isAuthenticated() && req.user && req.user.email === "admin@example.com"
ensureAdmin(s, requester) ==
  requester \in DOMAIN s.users /\ s.users[requester].email = AdminEmail

\* GET /api/users
GetUsers(s, requester, readFails) ==
  IF ~ensureAdmin(s, requester) THEN Refused(403)
  ELSE [status |-> 200, rows |-> getUsers(s, readFails)]

\* GET /api/all-skills
GetAllSkills(s, requester, readFails) ==
  IF ~ensureAdmin(s, requester) THEN Refused(403)
  ELSE [status |-> 200, rows |-> getSkills(s, readFails)]

(***************************************************************************)
(* The state after start-up on an empty database: initializeAdminUser and  *)
(* initializeDemoUser have inserted the two accounts and the three sample  *)
(* skills of the demo account (three calls of createSkill).                *)
(***************************************************************************)
AdminUser ==
  [id |-> AdminId, email |-> AdminEmail, password |-> "hash(adminpass)",
   firstName |-> "Admin", lastName |-> "User", projectName |-> Null,
   clientName |-> Null, role |-> "admin", location |-> Null]

DemoUser ==
  [id |-> DemoId, email |-> "demo@example.com", password |-> "hash(password123)",
   firstName |-> "Demo", lastName |-> "User", projectName |-> "Cloud Migration",
   clientName |-> "Acme Corp", role |-> "Software Engineer",
   location |-> "New York, NY"]

SampleSkills ==
  <<[userId |-> DemoId, name |-> "JavaScript", level |-> "Expert",
     certificationUrl |-> Null],
    [userId |-> DemoId, name |-> "TypeScript", level |-> "Intermediate",
     certificationUrl |-> CertUrl],
    [userId |-> DemoId, name |-> "React", level |-> "Beginner",
     certificationUrl |-> Null]>>

EmptyTable == [i \in {} |-> Missing]

Seeded ==
  LET s0 == [users |-> (AdminId :> AdminUser) @@ (DemoId :> DemoUser),
             skills |-> EmptyTable, skillHistory |-> EmptyTable,
             profileHistory |-> EmptyTable, clock |-> 0, threw |-> FALSE,
             failAt |-> 0, readFailAt |-> 0]
      s1 == createSkill(s0, SampleSkills[1], 1)
      s2 == createSkill(s1, SampleSkills[2], 1)
  IN createSkill(s2, SampleSkills[3], 1)

\* The registration requests in flight: one slot each.
Slots == 1..MaxRegistrations

\* pc: where the handler is; "idle": no request has come in the slot.
NoRegistration == [pc |-> "idle", email |-> Undefined, status |-> 0]

\* The profile update in flight in the step-wise reading of the handler.
NoProfileCall ==
  [pc |-> "idle", userId |-> 0, body |-> <<>>, updates |-> <<>>,
   currentUser |-> Missing, fields |-> <<>>, status |-> 0]

\* The two update-skill requests in flight together.
Racers == {"first", "second"}

\* existingSkill: the handler's reading of the skill; currentSkill and now:
\* those of updateSkill; order: the place of the call's UPDATE among the
\* UPDATEs of the two calls, 0 before it is made.
NoSkillCall ==
  [pc |-> "idle", body |-> [none |-> TRUE], existingSkill |-> Missing,
   currentSkill |-> Missing, now |-> 0, order |-> 0, status |-> 0]

Tables(s) == [users |-> s.users, skills |-> s.skills,
              skillHistory |-> s.skillHistory, profileHistory |-> s.profileHistory]

NoBody == [none |-> TRUE]

\* The request meets no failing storage call.
NoFaults == [failAt |-> 0, readFailAt |-> 0]

Init ==
  /\ users = Seeded.users
  /\ skills = Seeded.skills
  /\ skillHistory = Seeded.skillHistory
  /\ profileHistory = Seeded.profileHistory
  /\ clock = Seeded.clock
  /\ nreq = 0
  /\ pre = Tables(Seeded)
  /\ last = [op |-> "none", requester |-> 0, id |-> 0, body |-> NoBody,
             readFails |-> FALSE, faults |-> NoFaults, status |-> 0]
  /\ registrations = [r \in Slots |-> NoRegistration]
  /\ profileCall = NoProfileCall
  /\ skillCalls = [c \in Racers |-> NoSkillCall]

(***************************************************************************)
(* Requests.  pre keeps the tables as the request found them and last the  *)
(* request with the status of its response.  The two GET handlers write    *)
(* nothing: what they answer is an operator of the state.                  *)
(***************************************************************************)
SkillBodies ==
  [userId : Requesters, name : SkillNameInputs, level : SkillLevelInputs,
   certificationUrl : CertInputs]

Supplied(body) == {f \in DOMAIN body : body[f] # Undefined}

ProfileBodies ==
  {body \in [Range(updatableFields) -> {Undefined, ProfileValue}] :
     Cardinality(Supplied(body)) <= MaxSupplied}

\* The ids a request can name: those of the rows and one that no row has.
Ids(table) == DOMAIN table \cup {NextId(table)}

Respond(op, requester, id, body, readFails, faults, response) ==
  /\ users' = response.store.users
  /\ skills' = response.store.skills
  /\ skillHistory' = response.store.skillHistory
  /\ profileHistory' = response.store.profileHistory
  /\ clock' = response.store.clock
  /\ pre' = Tables(Store)
  /\ last' = [op |-> op, requester |-> requester, id |-> id, body |-> body,
              readFails |-> readFails, faults |-> faults,
              status |-> response.status]
  /\ UNCHANGED <<registrations, profileCall, skillCalls>>

CreateSkillRequest ==
  /\ nreq < MaxRequests
  /\ \E requester \in Requesters, body \in SkillBodies, tick \in Ticks :
       Respond("createSkill", requester, 0, body, FALSE, NoFaults,
               PostSkill(Store, requester, body, tick))
  /\ nreq' = nreq + 1

UpdateSkillRequest ==
  /\ nreq < MaxRequests
  /\ \E requester \in Requesters, skillId \in Ids(skills), body \in SkillBodies,
        tick \in Ticks :
       Respond("updateSkill", requester, skillId, body, FALSE, NoFaults,
               PutSkill(Store, requester, skillId, body, tick))
  /\ nreq' = nreq + 1

UpdateProfileRequest ==
  /\ nreq < MaxRequests
  /\ \E requester \in Requesters, userId \in Ids(users), body \in ProfileBodies,
        readFails \in BOOLEAN, tick \in Ticks :
       /\ readFails => requester = userId
       /\ Respond("updateProfile", requester, userId, body, readFails, NoFaults,
                  PutProfile(Store, requester, userId, body, readFails, tick))
  /\ nreq' = nreq + 1

Next ==
  \/ CreateSkillRequest
  \/ UpdateSkillRequest
  \/ UpdateProfileRequest

Spec == Init /\ [][Next]_vars

(***************************************************************************)
(* The three mutations with a storage call that fails: the request meets   *)
(* a store in which one writing statement or one lookup throws.            *)
(***************************************************************************)
\* A handler makes up to three lookups and writes for a skill and up to
\* 2 * MaxSupplied + 1 writes for a profile.
FailAts == 0..(2 * MaxSupplied + 1)

Faults == [failAt : FailAts, readFailAt : 0..2]

Faulty(faults) ==
  [Store EXCEPT !.failAt = faults.failAt, !.readFailAt = faults.readFailAt]

CreateSkillFailing ==
  /\ nreq < MaxRequests
  /\ \E requester \in Requesters, body \in SkillBodies, tick \in Ticks,
        faults \in Faults :
       Respond("createSkill", requester, 0, body, FALSE, faults,
               PostSkill(Faulty(faults), requester, body, tick))
  /\ nreq' = nreq + 1

UpdateSkillFailing ==
  /\ nreq < MaxRequests
  /\ \E requester \in Requesters, skillId \in Ids(skills), body \in SkillBodies,
        tick \in Ticks, faults \in Faults :
       Respond("updateSkill", requester, skillId, body, FALSE, faults,
               PutSkill(Faulty(faults), requester, skillId, body, tick))
  /\ nreq' = nreq + 1

UpdateProfileFailing ==
  /\ nreq < MaxRequests
  /\ \E requester \in Requesters, userId \in Ids(users), body \in ProfileBodies,
        tick \in Ticks, faults \in Faults :
       Respond("updateProfile", requester, userId, body, FALSE, faults,
               PutProfile(Faulty(faults), requester, userId, body, FALSE, tick))
  /\ nreq' = nreq + 1

NextFaults ==
  \/ CreateSkillFailing
  \/ UpdateSkillFailing
  \/ UpdateProfileFailing

SpecFaults == Init /\ [][NextFaults]_vars

(***************************************************************************)
(* auth.ts: POST /api/register, step by step.  The handler awaits between  *)
(* the lookup of the email and the insert (it hashes the password), so the *)
(* steps of several requests interleave.                                   *)
(***************************************************************************)
\* Undefined: the body has no email.
RegisterEmails == {AdminEmail, "ann@example.com", "bob@example.com", Undefined}

\* The row the handler inserts for a body that holds the email only.
NewUser(email) ==
  [email |-> email, password |-> "hash(temporary)", firstName |-> Null,
   lastName |-> Null, projectName |-> Null, clientName |-> Null,
   role |-> Null, location |-> Null]

\* insertUserSchema.parse and the lookup of the email.
RegisterCheck(r) ==
  /\ registrations[r].pc = "idle"
  /\ \E email \in RegisterEmails, readFails \in BOOLEAN :
       registrations' = [registrations EXCEPT ![r] =
         IF email = Undefined
         THEN [pc |-> "done", email |-> email, status |-> 400]
         ELSE IF getUserByEmail(Store, email, readFails) # Missing
         THEN [pc |-> "done", email |-> email, status |-> 400]
         ELSE [pc |-> "checked", email |-> email, status |-> 0]]
  /\ UNCHANGED <<users, skills, skillHistory, profileHistory, clock, nreq, pre,
                 last, profileCall, skillCalls>>

\* createUser and the response: 201, or 500 when the insert throws.
RegisterCreate(r) ==
  /\ registrations[r].pc = "checked"
  /\ LET s1 == createUser(Store, NewUser(registrations[r].email))
     IN /\ users' = s1.users
        /\ registrations' = [registrations EXCEPT ![r] =
             [@ EXCEPT !.pc = "done",
                       !.status = IF s1.threw THEN 500 ELSE 201]]
  /\ UNCHANGED <<skills, skillHistory, profileHistory, clock, nreq, pre, last,
                 profileCall, skillCalls>>

NextRegister ==
  \/ \E r \in Slots : RegisterCheck(r)
  \/ \E r \in Slots : RegisterCreate(r)

SpecRegister == Init /\ [][NextRegister]_vars

(***************************************************************************)
(* PUT /api/users/:id/profile, step by step: one step for each storage     *)
(* call the handler and updateUser await, in the order of the code.        *)
(***************************************************************************)
\* The handler up to the call of updateUser.
ProfileBegin ==
  /\ profileCall.pc = "idle"
  /\ \E requester \in Requesters, userId \in Ids(users), body \in ProfileBodies,
        readFails \in BOOLEAN :
       LET currentUser == getUser(Store, userId, readFails)
           call == [NoProfileCall EXCEPT !.userId = userId, !.body = body,
                                         !.currentUser = currentUser]
       IN /\ readFails => requester = userId
          /\ profileCall' =
               IF NotOwnProfile(requester, userId)
               THEN [call EXCEPT !.pc = "done", !.status = 403,
                                 !.currentUser = Missing]
               ELSE IF currentUser = Missing
               THEN [call EXCEPT !.pc = "done", !.status = 404]
               ELSE IF DOMAIN profileUpdates(body, currentUser) = {}
               THEN [call EXCEPT !.pc = "done", !.status = 200]
               ELSE [call EXCEPT !.pc = "storageHistory",
                                 !.updates = profileUpdates(body, currentUser),
                                 !.fields = fieldsToTrack]
  /\ UNCHANGED <<users, skills, skillHistory, profileHistory, clock, nreq, pre,
                 last, registrations, skillCalls>>

\* updateUser: the next field of fieldsToTrack, with its history row.
StorageHistoryStep ==
  /\ profileCall.pc = "storageHistory"
  /\ \E tick \in Ticks :
       LET c == profileCall
           s1 == TrackChanges(Store, c.userId, c.updates, c.currentUser,
                              <<Head(c.fields)>>, tick)
       IN /\ profileHistory' = s1.profileHistory
          /\ clock' = s1.clock
  /\ profileCall' = [profileCall EXCEPT
       !.fields = Tail(@),
       !.pc = IF Tail(profileCall.fields) = <<>> THEN "userRow" ELSE @]
  /\ UNCHANGED <<users, skills, skillHistory, nreq, pre, last, registrations,
                 skillCalls>>

\* updateUser: the UPDATE of the users row.
UserRowStep ==
  /\ profileCall.pc = "userRow"
  /\ users' = [users EXCEPT ![profileCall.userId] =
                 SetUser(profileCall.currentUser, profileCall.updates)]
  /\ profileCall' = [profileCall EXCEPT !.pc = "routeHistory",
                                         !.fields = updatableFields]
  /\ UNCHANGED <<skills, skillHistory, profileHistory, clock, nreq, pre, last,
                 registrations, skillCalls>>

\* The handler's loop over historyEntries: the next updatable field, with
\* its entry.
RouteHistoryStep ==
  /\ profileCall.pc = "routeHistory"
  /\ \E tick \in Ticks :
       LET c == profileCall
           s1 == WriteHistoryEntries(Store, c.userId, c.body, c.currentUser,
                                     <<Head(c.fields)>>, tick)
       IN /\ profileHistory' = s1.profileHistory
          /\ clock' = s1.clock
  /\ profileCall' = [profileCall EXCEPT
       !.fields = Tail(@),
       !.pc = IF Tail(profileCall.fields) = <<>> THEN "done" ELSE @,
       !.status = IF Tail(profileCall.fields) = <<>> THEN 200 ELSE @]
  /\ UNCHANGED <<users, skills, skillHistory, nreq, pre, last, registrations,
                 skillCalls>>

NextProfileSteps ==
  \/ ProfileBegin
  \/ StorageHistoryStep
  \/ UserRowStep
  \/ RouteHistoryStep

SpecProfileSteps == Init /\ [][NextProfileSteps]_vars

(***************************************************************************)
(* routes.ts: PUT /api/skills/:id, two calls by the owner for one skill,   *)
(* step by step: every await of the handler and of updateSkill is a point  *)
(* where the other call can run.                                           *)
(***************************************************************************)
\* The skill both calls update: the first sample skill of the demo user.
RaceSkillId == 1

RaceBodies ==
  [userId : {DemoId}, name : {"JavaScript"}, level : {"Beginner", "Intermediate"},
   certificationUrl : {Undefined, CertUrl}]

\* Variant: the UPDATE is made only when the row is still the one read.
UpdateRowIfUnchanged(row, currentSkill, updates) ==
  IF row = currentSkill THEN SetSkill(row, updates) ELSE row

\* db.update(skills).set({...updates}).where(eq(skills.id, id)): the SET
\* clause is applied to the row as it is when the statement runs.
UpdateRow(row, currentSkill, updates) == SetSkill(row, updates)

\* The handler up to its first await: parse, the userId check, getSkillById
\* and the check of the owner.
SkillBegin(c) ==
  /\ skillCalls[c].pc = "idle"
  /\ \E body \in RaceBodies :
       LET existingSkill == getSkillById(Store, RaceSkillId, FALSE)
           call == [NoSkillCall EXCEPT !.body = body]
       IN skillCalls' = [skillCalls EXCEPT ![c] =
            IF ~ValidSkill(body) THEN [call EXCEPT !.pc = "done", !.status = 400]
            ELSE IF NotSelf(body, DemoId)
            THEN [call EXCEPT !.pc = "done", !.status = 403]
            ELSE IF existingSkill = Missing
            THEN [call EXCEPT !.pc = "done", !.status = 404]
            ELSE IF NotOwner(existingSkill, DemoId)
            THEN [call EXCEPT !.pc = "done", !.status = 403]
            ELSE [call EXCEPT !.pc = "routeHistory",
                              !.existingSkill = existingSkill]]
  /\ UNCHANGED <<users, skills, skillHistory, profileHistory, clock, nreq, pre,
                 last, registrations, profileCall>>

\* The handler's createSkillHistory, when its reading differs from the
\* payload.
SkillRouteHistory(c) ==
  /\ skillCalls[c].pc = "routeHistory"
  /\ \E tick \in Ticks :
       LET call == skillCalls[c]
           s1 == IF SkillChangedRoute(call.existingSkill, call.body)
                 THEN createSkillHistory(Store,
                        RouteSkillHistory(RaceSkillId, call.body), tick)
                 ELSE Store
       IN /\ skillHistory' = s1.skillHistory
          /\ clock' = s1.clock
  /\ skillCalls' = [skillCalls EXCEPT ![c].pc = "storageRead"]
  /\ UNCHANGED <<users, skills, profileHistory, nreq, pre, last, registrations,
                 profileCall>>

\* updateSkill: now = new Date() and getSkillById.
SkillStorageRead(c) ==
  /\ skillCalls[c].pc = "storageRead"
  /\ \E tick \in Ticks :
       /\ clock' = Tick(Store, tick).clock
       /\ skillCalls' = [skillCalls EXCEPT
            ![c].pc = "storageHistory",
            ![c].now = Tick(Store, tick).clock,
            ![c].currentSkill = getSkillById(Store, RaceSkillId, FALSE)]
  /\ UNCHANGED <<users, skills, skillHistory, profileHistory, nreq, pre, last,
                 registrations, profileCall>>

\* updateSkill: its createSkillHistory, when its reading differs from the
\* updates.
SkillStorageHistory(c) ==
  /\ skillCalls[c].pc = "storageHistory"
  /\ LET call == skillCalls[c]
         s1 == IF SkillChangedStorage(call.body, call.currentSkill)
               THEN createSkillHistory(Store,
                      [skillId |-> RaceSkillId,
                       userId |-> call.currentSkill.userId,
                       name |-> call.currentSkill.name,
                       level |-> HistoryLevel(call.body, call.currentSkill),
                       certificationUrl |->
                         HistoryCertificationUrl(call.body, call.currentSkill),
                       updatedAt |-> <<call.now>>], 0)
               ELSE Store
     IN skillHistory' = s1.skillHistory
  /\ skillCalls' = [skillCalls EXCEPT ![c].pc = "row"]
  /\ UNCHANGED <<users, skills, profileHistory, clock, nreq, pre, last,
                 registrations, profileCall>>

\* updateSkill: the UPDATE of the skills row, and the response.
SkillRowStep(c) ==
  /\ skillCalls[c].pc = "row"
  /\ skills' = [skills EXCEPT ![RaceSkillId] =
                  UpdateRow(@, skillCalls[c].currentSkill, skillCalls[c].body)]
  /\ skillCalls' = [skillCalls EXCEPT
       ![c].pc = "done",
       ![c].status = 200,
       ![c].order = 1 + Cardinality({d \in Racers : skillCalls[d].order > 0})]
  /\ UNCHANGED <<users, skillHistory, profileHistory, clock, nreq, pre, last,
                 registrations, profileCall>>

NextSkillRace ==
  \/ \E c \in Racers : SkillBegin(c)
  \/ \E c \in Racers : SkillRouteHistory(c)
  \/ \E c \in Racers : SkillStorageRead(c)
  \/ \E c \in Racers : SkillStorageHistory(c)
  \/ \E c \in Racers : SkillRowStep(c)

SpecSkillRace == Init /\ [][NextSkillRace]_vars

(***************************************************************************)
(* auth.ts: POST /api/forgot-password, and the requests that act on the    *)
(* accounts: registration, password reset and profile update.              *)
(***************************************************************************)
\* Number of registrations, password resets and profile updates taken in
\* one run, one after the other.
MaxAccountRequests == 3

Answer(s, status, message) == [store |-> s, status |-> status, message |-> message]

ResetMessage ==
  "If your email is registered, you will receive password reset instructions"

\* hashPassword(generateTemporaryPassword()) of a reset.
ResetHash == "hash(reset)"

\* Variant: an email no user has is answered as not found.
UnknownEmailNotFound(s) == Answer(s, 404, "Email not found")

\* The answer to an email no user has.
UnknownEmailAnswer(s) == Answer(s, 200, ResetMessage)

\* sendTemporaryPasswordEmail catches its own errors and its result is not
\* read: the mail has no part in the answer.
ForgotPassword(s, email, readFails) ==
  IF ~Truthy(email) THEN Answer(s, 400, "Email is required")
  ELSE LET user == getUserByEmail(s, email, readFails)
           s1 == updateUser(s, user.id, [password |-> ResetHash], 0)
       IN IF user = Missing THEN UnknownEmailAnswer(s)
          ELSE IF s1.threw THEN Answer(s1, 500, "Internal Server Error")
          ELSE Answer(s1, 200, ResetMessage)

ForgotPasswordRequest ==
  /\ nreq < MaxAccountRequests
  /\ \E email \in RegisterEmails, readFails \in BOOLEAN :
       Respond("forgotPassword", Anonymous, 0, [email |-> email], readFails,
               NoFaults, ForgotPassword(Store, email, readFails))
  /\ nreq' = nreq + 1

\* Bodies that ask for the role "admin", alone or with the admin's email.
RoleBodies ==
  LET body == [f \in Range(updatableFields) |->
                 IF f = "role" THEN "admin" ELSE Undefined]
  IN {body, body @@ [email |-> AdminEmail]}

RoleUpdateRequest ==
  /\ nreq < MaxAccountRequests
  /\ \E requester \in DOMAIN users, body \in RoleBodies, tick \in Ticks :
     \E userId \in {requester, AdminId} :
       Respond("updateProfile", requester, userId, body, FALSE, NoFaults,
               PutProfile(Store, requester, userId, body, FALSE, tick))
  /\ nreq' = nreq + 1

\* POST /api/register, the whole handler: parse, lookup of the email,
\* createUser and the response.
Register(s, email, readFails) ==
  IF email = Undefined THEN Response(s, 400)
  ELSE IF getUserByEmail(s, email, readFails) # Missing THEN Response(s, 400)
  ELSE LET s1 == createUser(s, NewUser(email))
       IN IF s1.threw THEN Response(s1, 500) ELSE Response(s1, 201)

RegisterRequest ==
  /\ nreq < MaxAccountRequests
  /\ \E email \in RegisterEmails, readFails \in BOOLEAN :
       Respond("register", Anonymous, 0, [email |-> email], readFails,
               NoFaults, Register(Store, email, readFails))
  /\ nreq' = nreq + 1

NextAccounts ==
  \/ RegisterRequest
  \/ ForgotPasswordRequest
  \/ RoleUpdateRequest

SpecAccounts == Init /\ [][NextAccounts]_vars

(***************************************************************************)
(* routes.ts: PUT /api/users/:id/profile on a user's own profile, with     *)
(* bodies that hold null or the empty string for a field, and keys other   *)
(* than the six the handler reads.                                         *)
(***************************************************************************)
\* Number of such requests taken in one run.
MaxInputRequests == 2

ProfileInputValues == {Null, "", ProfileValue}

\* The keys a body holds next to the six fields: none, or one of id, email
\* and password.
ExtraKeys ==
  {[k \in {} |-> Undefined], [id |-> 7], [email |-> "eve@example.com"],
   [password |-> "chosen"]}

\* No field supplied, or one.
ProfileInputBodies ==
  {[f \in Range(updatableFields) |-> Undefined]} \cup
  {[f \in Range(updatableFields) |-> IF f = g THEN v ELSE Undefined] :
     g \in Range(updatableFields), v \in ProfileInputValues}

ProfileInputRequest ==
  /\ nreq < MaxInputRequests
  /\ \E requester \in Requesters, body \in ProfileInputBodies,
        extra \in ExtraKeys, tick \in Ticks :
       Respond("updateProfile", requester, requester, body @@ extra, FALSE,
               NoFaults,
               PutProfile(Store, requester, requester, body @@ extra, FALSE, tick))
  /\ nreq' = nreq + 1

NextProfileInputs == ProfileInputRequest

SpecProfileInputs == Init /\ [][NextProfileInputs]_vars

(***************************************************************************)
(* Properties.                                                             *)
(***************************************************************************)
NewSkillHistory == {h \in Rows(skillHistory) : h.id \notin DOMAIN pre.skillHistory}

NewProfileHistory ==
  {h \in Rows(profileHistory) : h.id \notin DOMAIN pre.profileHistory}

Snapshot(row) == <<row.name, row.level, row.certificationUrl>>

\* The skill a successful create-skill request has inserted.
CreatedSkill == skills[NextId(pre.skills)]

\* C1: a successful create-skill request adds exactly one SkillHistory row
\* for the new skill, and the row's (name, level, certificationUrl) are the
\* created skill's.
C1_CreateWritesOneHistoryRow ==
  (last.op = "createSkill" /\ last.status = 201) =>
    LET added == {h \in NewSkillHistory : h.skillId = CreatedSkill.id}
    IN /\ Cardinality(NewSkillHistory) = 1
       /\ Cardinality(added) = 1
       /\ \A h \in added : Snapshot(h) = Snapshot(CreatedSkill)

\* The payload of the last skill update names another level or another
\* certificationUrl than the stored skill has.
UpdateChangesLevelOrCertification ==
  /\ last.op = "updateSkill" /\ last.status = 200
  /\ \/ last.body.level # pre.skills[last.id].level
     \/ /\ last.body.certificationUrl # Undefined
        /\ last.body.certificationUrl # pre.skills[last.id].certificationUrl

\* C2: a successful skill update that changes the level, the
\* certificationUrl or both adds exactly one SkillHistory row for the skill.
C2_UpdateWritesOneHistoryRow ==
  UpdateChangesLevelOrCertification =>
    /\ Cardinality(NewSkillHistory) = 1
    /\ \A h \in NewSkillHistory : h.skillId = last.id

\* The profile update the last request made, answered 200.
ProfileUpdated == last.op = "updateProfile" /\ last.status = 200

\* The tracked fields whose supplied value differs from the stored one.
TrackedChanged ==
  {f \in Range(fieldsToTrack) :
     last.body[f] # Undefined /\ last.body[f] # pre.users[last.id][f]}

\* C3: a profile update that changes exactly k tracked fields creates
\* exactly k ProfileHistory rows, one per changed field, each with the
\* pre-update value as previousValue and the supplied value as newValue.
C3_OneProfileHistoryRowPerChange ==
  ProfileUpdated =>
    /\ Cardinality(NewProfileHistory) = Cardinality(TrackedChanged)
    /\ \A f \in TrackedChanged :
         \E h \in NewProfileHistory :
           /\ h.userId = last.id
           /\ h.previousValue = pre.users[last.id][f]
           /\ h.newValue = last.body[f]

\* C4: a profile update of the requester's own, existing profile in which
\* no tracked field changes (also one that changes only firstName or
\* lastName) succeeds, creates no ProfileHistory row and leaves the tracked
\* fields as they were.
C4_NoTrackedChangeNoHistory ==
  ( /\ last.op = "updateProfile"
    /\ last.requester = last.id
    /\ ~last.readFails
    /\ TrackedChanged = {} ) =>
    /\ last.status = 200
    /\ NewProfileHistory = {}
    /\ \A f \in Range(fieldsToTrack) : users[last.id][f] = pre.users[last.id][f]

\* The last request is a successful skill update whose payload differs from
\* the stored skill in the name only.
NameOnlyUpdate ==
  /\ last.op = "updateSkill" /\ last.status = 200
  /\ last.body.name # pre.skills[last.id].name
  /\ last.body.level = pre.skills[last.id].level
  /\ last.body.certificationUrl = pre.skills[last.id].certificationUrl

\* C5: a skill update that changes only the name (level and
\* certificationUrl equal to the stored values) adds no SkillHistory row.
C5_NameOnlyUpdateWritesNoHistory == NameOnlyUpdate => NewSkillHistory = {}

C5_Witness == NameOnlyUpdate /\ skills[last.id].name = last.body.name

\* The last request is a create or update whose payload userId is not the
\* requester's id, or an update of a skill that another user owns.
NotTheOwnersRequest ==
  /\ last.op \in {"createSkill", "updateSkill"}
  /\ \/ last.body.userId # last.requester
     \/ /\ last.op = "updateSkill"
        /\ last.id \in DOMAIN pre.skills
        /\ pre.skills[last.id].userId # last.requester

NoSkillWrite == skills = pre.skills /\ skillHistory = pre.skillHistory

\* C6 as stated: such a request fails with 403 and writes neither skills nor
\* skill_history.
C6_ForeignSkillRequestForbidden ==
  NotTheOwnersRequest => (last.status = 403 /\ NoSkillWrite)

\* C6: such a request writes neither skills nor skill_history, and fails
\* with 403 when the payload passes validation and with 400 when it does not
\* (the payload is validated before the userId is compared).
C6_ForeignSkillRequestRejected ==
  NotTheOwnersRequest =>
    /\ last.status = IF ValidSkill(last.body) THEN 403 ELSE 400
    /\ NoSkillWrite

C6_Witness ==
  /\ last.op = "updateSkill"
  /\ last.body.userId = last.requester
  /\ last.id \in DOMAIN pre.skills
  /\ pre.skills[last.id].userId # last.requester
  /\ last.status = 403

NoUserWrite == users = pre.users /\ profileHistory = pre.profileHistory

SkillHistoryOf(skillId) == {h \in Rows(skillHistory) : h.skillId = skillId}

\* The most recent history row of a skill: the one inserted last.
MostRecent(skillId) ==
  CHOOSE h \in SkillHistoryOf(skillId) :
    \A g \in SkillHistoryOf(skillId) : g.id <= h.id

HistoryListings ==
  UNION {getSkillHistoryBySkillId(Store, id, f) : id \in DOMAIN skills, f \in BOOLEAN}
    \cup UNION {getProfileHistoryByUserId(Store, id, f) :
                  id \in DOMAIN users, f \in BOOLEAN}

\* C10 as stated: every history listing is in strictly descending updatedAt
\* order.
C10_ListingsStrictlyDescending ==
  \A l \in HistoryListings :
    \A i \in 1..(Len(l) - 1) : l[i].updatedAt > l[i + 1].updatedAt

\* C10: every history listing is in descending updatedAt order, not
\* strictly: rows stamped with the same time follow each other.
C10_ListingsDescending ==
  \A l \in HistoryListings :
    \A i \in 1..(Len(l) - 1) : l[i].updatedAt >= l[i + 1].updatedAt

C10_Witness ==
  /\ ProfileUpdated
  /\ \E l \in getProfileHistoryByUserId(Store, last.id, FALSE) :
       Len(l) >= 2 /\ l[1].updatedAt > l[Len(l)].updatedAt

SkillRequest == last.op \in {"createSkill", "updateSkill"}

\* C11: a create-skill or update-skill request whose payload fails
\* validation is answered 400, and a request answered 400 leaves skills and
\* skill_history as it found them.
C11_ValidationErrorWritesNothing ==
  SkillRequest =>
    /\ ~ValidSkill(last.body) => last.status = 400
    /\ last.status = 400 => NoSkillWrite

\* An update of the requester's own skill that would change the level, with
\* a payload that has no name, is answered 400.
C11_Witness ==
  /\ last.op = "updateSkill" /\ last.status = 400
  /\ last.id \in DOMAIN pre.skills
  /\ pre.skills[last.id].userId = last.requester
  /\ last.body.userId = last.requester
  /\ last.body.level # pre.skills[last.id].level

\* C12 as stated: every skill's level is one of Beginner, Intermediate,
\* Expert, and a create or update request with another level is rejected
\* with a validation error and stores nothing.
C12_SkillLevelsEnumerated ==
  /\ \A id \in DOMAIN skills : skills[id].level \in SKILL_LEVELS
  /\ (SkillRequest /\ last.body.level \notin SKILL_LEVELS) =>
       (last.status = 400 /\ NoSkillWrite)

\* The last request is an update of a skill id that no skill has.
UpdateOfMissingSkill == last.op = "updateSkill" /\ last.id \notin DOMAIN pre.skills

\* C13 as stated: an update of a skill id that does not exist fails with 404
\* and writes neither a skill nor a SkillHistory row.
C13_MissingSkillNotFound ==
  UpdateOfMissingSkill => (last.status = 404 /\ NoSkillWrite)

\* C13: an update of a skill id that does not exist writes neither a skill
\* nor a SkillHistory row, and fails with 404 when the payload passes
\* validation and names the requester as userId; before the lookup the
\* payload is validated (400) and its userId compared (403).
C13_MissingSkillRejected ==
  UpdateOfMissingSkill =>
    /\ last.status = IF ~ValidSkill(last.body) THEN 400
                     ELSE IF last.body.userId # last.requester THEN 403
                     ELSE 404
    /\ NoSkillWrite

C13_Witness ==
  /\ UpdateOfMissingSkill
  /\ ValidSkill(last.body)
  /\ last.body.userId = last.requester
  /\ last.status = 404

\* The first SkillHistory row of a skill: createSkill writes it with the
\* userId the skill is created with.
FirstRow(skillId) ==
  CHOOSE h \in SkillHistoryOf(skillId) :
    \A g \in SkillHistoryOf(skillId) : h.id <= g.id

\* C14: a skill's userId never changes: every skill a request found has the
\* same userId after the request, and every skill's userId is the one its
\* first SkillHistory row recorded at creation.
C14_SkillOwnerNeverChanges ==
  /\ \A id \in DOMAIN pre.skills :
       id \in DOMAIN skills /\ skills[id].userId = pre.skills[id].userId
  /\ \A id \in DOMAIN skills : skills[id].userId = FirstRow(id).userId

\* A successful update has changed the skill's row.
C14_Witness ==
  /\ last.op = "updateSkill" /\ last.status = 200
  /\ skills[last.id] # pre.skills[last.id]
  /\ skills[last.id].userId = last.requester

\* C15: the two admin listings answer 200 with rows to the admin account
\* and to no one else: every other requester, with a session or without
\* one, is answered 403 without rows.
C15_AdminListingsAdminOnly ==
  \A requester \in Requesters \cup {Anonymous}, readFails \in BOOLEAN :
    LET all == {GetUsers(Store, requester, readFails),
                GetAllSkills(Store, requester, readFails)}
    IN IF requester = AdminId
       THEN /\ \A r \in all : r.status = 200
            /\ ~readFails =>
                 /\ GetUsers(Store, requester, readFails).rows = Rows(users)
                 /\ GetAllSkills(Store, requester, readFails).rows = Rows(skills)
       ELSE \A r \in all : r = Refused(403)

\* The admin has created a skill: the admin is listed it with the skills of
\* the demo account, and the demo account is refused.
C15_Witness ==
  /\ last.op = "createSkill" /\ last.status = 201 /\ last.requester = AdminId
  /\ CreatedSkill \in GetAllSkills(Store, AdminId, FALSE).rows
  /\ \E sk \in GetAllSkills(Store, AdminId, FALSE).rows : sk.userId = DemoId
  /\ GetAllSkills(Store, DemoId, FALSE).status = 403
  /\ GetUsers(Store, Anonymous, FALSE).status = 403

\* C16 as stated: get-skill-history answers 404 for a skill that does not
\* exist, 403 to a requester who does not own the skill, and its successful
\* response holds exactly the SkillHistory rows of the requested skill.
C16_SkillHistoryOwnerOnly ==
  \A requester \in Requesters, skillId \in Ids(skills),
     skillReadFails \in BOOLEAN, historyReadFails \in BOOLEAN :
    LET r == GetSkillHistory(Store, requester, skillId, skillReadFails,
                             historyReadFails)
    IN /\ skillId \notin DOMAIN skills => r.status = 404
       /\ (skillId \in DOMAIN skills /\ skills[skillId].userId # requester) =>
            r.status = 403
       /\ r.status = 200 =>
            /\ skills[skillId].userId = requester
            /\ \A l \in r.listings :
                 /\ Range(l) = SkillHistoryOf(skillId)
                 /\ Len(l) = Cardinality(SkillHistoryOf(skillId))

SkillUpdated == last.op = "updateSkill" /\ last.status = 200

\* C18 as stated: every SkillHistory row a skill update writes carries the
\* (name, level, certificationUrl) the skill row has after the update.
C18_UpdateRowsCarryPostUpdateValues ==
  SkillUpdated =>
    \A h \in NewSkillHistory : Snapshot(h) = Snapshot(skills[last.id])

\* C19 as stated: a skill update whose payload has no certificationUrl and
\* keeps the level writes no SkillHistory row and leaves the stored
\* certificationUrl, and a profile update writes no ProfileHistory row for a
\* field its payload does not have.
C19_AbsentFieldsAreNotChanges ==
  /\ ( /\ SkillUpdated
       /\ last.body.certificationUrl = Undefined
       /\ last.body.level = pre.skills[last.id].level ) =>
       /\ NewSkillHistory = {}
       /\ skills[last.id].certificationUrl = pre.skills[last.id].certificationUrl
  /\ ProfileUpdated =>
       \A f \in Range(updatableFields) :
         last.body[f] = Undefined =>
           \A h \in NewProfileHistory : h.field \notin {f, FieldLabel(f)}

\* C17: no two users share an email, and of the registration requests with
\* the same email at most one is answered 201.
C17_EmailsUnique ==
  /\ \A i, j \in DOMAIN users : users[i].email = users[j].email => i = j
  /\ \A r1, r2 \in Slots :
       ( /\ r1 # r2
         /\ registrations[r1].email = registrations[r2].email
         /\ registrations[r1].status = 201 ) => registrations[r2].status # 201

\* Two registrations with the same email have both passed the lookup; one
\* has inserted the user and the insert of the other has thrown.
C17_Witness ==
  \E r1, r2 \in Slots :
    /\ r1 # r2
    /\ registrations[r1].email = registrations[r2].email
    /\ registrations[r1].status = 201
    /\ registrations[r2].status = 500

\* The fields whose ProfileHistory row the profile update in flight has
\* still to write.
HistoryRowsLeft ==
  LET c == profileCall
      route(fields) == {f \in Range(fields) :
                          FieldChangedRoute(c.body, c.currentUser, f)}
  IN CASE c.pc = "storageHistory" ->
            {f \in Range(c.fields) : TrackedChange(c.updates, c.currentUser, f)}
              \cup route(updatableFields)
       [] c.pc = "userRow" -> route(updatableFields)
       [] c.pc = "routeHistory" -> route(c.fields)
       [] OTHER -> {}

\* C20 as stated: while a profile update has a ProfileHistory row still to
\* write, the User row does not hold the new values yet.
C20_HistoryRowsBeforeUserRow ==
  (profileCall.pc \in {"storageHistory", "userRow", "routeHistory"}
     /\ users[profileCall.userId] # profileCall.currentUser) =>
    HistoryRowsLeft = {}

\* C21 as stated: a mutation in which a store call fails is answered 500
\* and leaves the four tables as the request found them.
C21_FailedMutationLeavesStateIntact ==
  last.status = 500 => Tables(Store) = pre

\* The last request is a profile or skill update that reached its lookup of
\* the current user or skill, and the query of the lookup threw.
LookupFailed ==
  \/ /\ last.op = "updateProfile"
     /\ last.requester = last.id
     /\ last.readFails \/ last.faults.readFailAt = 1
  \/ /\ last.op = "updateSkill"
     /\ ValidSkill(last.body)
     /\ last.body.userId = last.requester
     /\ last.faults.readFailAt = 1

\* C25 as stated: a profile or skill update whose lookup of the current
\* user or skill fails in the store is answered 500, never 404 or success.
C25_ReadFailureIsInternalError ==
  LookupFailed => last.status = 500

\* The labels the handler derives from the six updatable field names.
FieldLabels == {FieldLabel(f) : f \in Range(updatableFields)}

\* The rows the last request wrote for a user attribute, under either name.
NewRowsOf(f) ==
  {h \in NewProfileHistory : h.field \in {f, FieldLabel(f)}}

\* C23 as stated: every ProfileHistory row's field is the human-readable
\* label of the changed field, and a profile update that changes a tracked
\* field yields exactly one row for it, carrying that label and the new
\* value.
C23_FieldIsLabelOneRowPerChange ==
  /\ \A h \in Rows(profileHistory) : h.field \in FieldLabels
  /\ ProfileUpdated =>
       \A f \in TrackedChanged :
         /\ Cardinality(NewRowsOf(f)) = 1
         /\ \A h \in NewRowsOf(f) :
              h.field = FieldLabel(f) /\ h.newValue = last.body[f]

\* The names, raw and as labels, of the user attributes that are not tracked.
UntrackedNames ==
  {"firstName", "lastName", "email", "password",
   "First Name", "Last Name", "Email", "Password"}

\* C24 as stated: no ProfileHistory row is ever written for firstName,
\* lastName, email or password.
C24_HistoryForTrackedFieldsOnly ==
  \A h \in Rows(profileHistory) : h.field \notin UntrackedNames

\* C26: every SkillHistory row's skillId is the id of a skill whose userId
\* is the row's userId, and every ProfileHistory row's userId is the id of
\* a user.
C26_HistoryRowsReferToExistingRows ==
  /\ \A h \in Rows(skillHistory) :
       h.skillId \in DOMAIN skills /\ skills[h.skillId].userId = h.userId
  /\ \A h \in Rows(profileHistory) : h.userId \in DOMAIN users

\* An update of a skill has added SkillHistory rows to those of the seed.
C26_Witness ==
  /\ last.op = "updateSkill"
  /\ last.status = 200
  /\ Cardinality(NewSkillHistory) = 2
  /\ \A h \in NewSkillHistory : h.skillId = last.id

\* C27: a profile update changes no user's id, email or password, whatever
\* keys the request body holds next to the six profile fields.
C27_ProfileUpdateKeepsIdEmailPassword ==
  last.op = "updateProfile" =>
    /\ DOMAIN users = DOMAIN pre.users
    /\ \A k \in DOMAIN users :
         /\ users[k].id = k
         /\ users[k].email = pre.users[k].email
         /\ users[k].password = pre.users[k].password

\* A successful profile update that changed the user's row and whose body
\* holds one of the keys id, email and password.
C27_Witness ==
  /\ ProfileUpdated
  /\ DOMAIN last.body \cap {"id", "email", "password"} # {}
  /\ users[last.id] # pre.users[last.id]

\* The fields for which the last request supplied null or the empty string.
SuppliedEmpty == {f \in Range(updatableFields) : last.body[f] \in {Null, ""}}

\* C28: a profile update leaves a field for which it supplies null or the
\* empty string unchanged and writes no ProfileHistory row for it, and no
\* profile update turns a non-empty profile field into null or the empty
\* string.
C28_EmptyValuesIgnored ==
  last.op = "updateProfile" =>
    /\ \A f \in SuppliedEmpty :
         /\ users[last.id][f] = pre.users[last.id][f]
         /\ NewRowsOf(f) = {}
    /\ \A k \in DOMAIN pre.users, f \in Range(updatableFields) :
         Truthy(pre.users[k][f]) => Truthy(users[k][f])

\* A successful profile update that supplies null or the empty string for a
\* field an earlier update has set.
C28_Witness ==
  /\ ProfileUpdated
  /\ \E f \in SuppliedEmpty :
       /\ Truthy(pre.users[last.id][f])
       /\ pre.users[last.id][f] # Seeded.users[last.id][f]

\* The emails of a reset request that passes the check of the body.
ResetEmails == {e \in RegisterEmails : Truthy(e)}

\* The last request is a password reset whose lookup did not fail.
PasswordReset == last.op = "forgotPassword" /\ ~last.readFails

\* C29: with a store that answers, the status and body of the reset
\* response are the same for every non-empty email, registered or not, and
\* a reset changes the password of the user who has the email and nothing
\* else.
C29_ResetAnswerHidesRegistration ==
  /\ \A e1, e2 \in ResetEmails :
       LET a1 == ForgotPassword(Store, e1, FALSE)
           a2 == ForgotPassword(Store, e2, FALSE)
       IN a1.status = a2.status /\ a1.message = a2.message
  /\ (PasswordReset /\ Truthy(last.body.email)) =>
       /\ last.status = 200
       /\ DOMAIN users = DOMAIN pre.users
       /\ \A k \in DOMAIN users :
            IF pre.users[k].email = last.body.email
            THEN users[k] = [pre.users[k] EXCEPT !.password = ResetHash]
            ELSE users[k] = pre.users[k]
       /\ skills = pre.skills
       /\ skillHistory = pre.skillHistory
       /\ profileHistory = pre.profileHistory

\* A reset for the email of a user has changed that user's password, in a
\* state where another of the emails belongs to no user.
C29_Witness ==
  /\ PasswordReset
  /\ last.status = 200
  /\ \E k \in DOMAIN users :
       /\ users[k].email = last.body.email
       /\ users[k].password = ResetHash
       /\ pre.users[k].password # ResetHash
  /\ \E e \in ResetEmails : getUserByEmail(Store, e, FALSE) = Missing

\* C30: after any sequence of registrations, resets and profile updates the
\* admin check passes for the seeded admin only, and a registration with
\* the admin's email is not answered 201 and creates no user.
C30_AdminCheckPassesForAdminOnly ==
  /\ \A requester \in DOMAIN users \cup {Anonymous} :
       ensureAdmin(Store, requester) => requester = AdminId
  /\ (last.op = "register" /\ last.body.email = AdminEmail) =>
       last.status \in {400, 500} /\ users = pre.users

\* A registration with the admin's email has been refused in a state where
\* a user other than the admin has set their role to "admin".
C30_Witness ==
  /\ last.op = "register"
  /\ last.body.email = AdminEmail
  /\ last.status = 400
  /\ \E k \in DOMAIN users :
       /\ k # AdminId
       /\ users[k].role = "admin"
       /\ ~ensureAdmin(Store, k)

\* Both update-skill calls in flight have answered.
BothDone == \A c \in Racers : skillCalls[c].pc = "done"

\* The call whose UPDATE of the skill row was made last.
LaterWriter == CHOOSE c \in Racers : skillCalls[c].order = Cardinality(Racers)

\* C22: of two concurrent updates of one skill, each one that read a row
\* differing from its payload has written a history row with its level, and
\* the skill row holds the level of the update whose row write came last;
\* the witness is the interleaving in which both read the same snapshot and
\* the most recent history row is not the one of the stored level.
C22_LaterEntityWriteWins ==
  BothDone =>
    /\ skills[RaceSkillId].level = skillCalls[LaterWriter].body.level
    /\ \A c \in Racers :
         SkillChangedRoute(skillCalls[c].existingSkill, skillCalls[c].body) =>
           \E h \in NewSkillHistory :
             h.skillId = RaceSkillId /\ h.level = skillCalls[c].body.level

\* Both calls read the seeded row, in the handler and in updateSkill, both
\* wrote their two history rows, and the row written last, which is also
\* the one latest by updatedAt, has a level other than the stored one.
C22_Witness ==
  /\ BothDone
  /\ \A c \in Racers :
       /\ skillCalls[c].existingSkill = Seeded.skills[RaceSkillId]
       /\ skillCalls[c].currentSkill = Seeded.skills[RaceSkillId]
  /\ Cardinality(NewSkillHistory) = 2 * Cardinality(Racers)
  /\ MostRecent(RaceSkillId).level # skills[RaceSkillId].level
  /\ \A h \in SkillHistoryOf(RaceSkillId) \ {MostRecent(RaceSkillId)} :
       h.updatedAt < MostRecent(RaceSkillId).updatedAt

====
